---- MODULE Spec2Model ----
(***************************************************************************)
(* sf-syndication-api.                                                     *)
(*                                                                         *)
(* The /dealer/check route: URL resolution, the liveness probe, the static *)
(* scan with its dynamic fallback, link extraction, the bounded follow-up  *)
(* crawl and the aggregation.  The repository holds three revisions of the *)
(* route.  The variable `variant` says which one is running:               *)
(*   "index"    src/index.js            resolveUrl + scanPage              *)
(*   "part_001" src/unnamed/part_001    resolveUrl + scanStatic/scanDynamic*)
(*   "part_002" src/unnamed/part_002    inline prefix + scanStatic/Dynamic *)
(*                                                                         *)
(* The /sync/:oppId route: the token cache of the process, the token       *)
(* exchange, the forward call with its one retry, and the answer.  Its     *)
(* revisions are listed with SyncVariants.                                 *)
(*                                                                         *)
(* Strings are sequences of one-character strings, so that trim,           *)
(* startsWith and concatenation are computed and not assumed.  The         *)
(* messages of /sync are sequences of their parts.                         *)
(***************************************************************************)
EXTENDS Integers, Sequences, FiniteSets, TLC

VARIABLES
    variant,        \* which revision of the route is running
    inputUrl,       \* req.query.url
    pc,             \* the await the handler is suspended at
    resolvedUrl,    \* let resolvedUrl
    attempts,       \* resolveUrl: const attempts
    probed,         \* resolveUrl: the fetches made so far and what each gave
    siteActive,     \* let siteActive
    statusCode,     \* let statusCode
    results,        \* const results
    result,         \* homepageResult / result of the page being scanned
    scanUrl,        \* the url argument of the scan in progress
    candidateLinks, \* const candidateLinks
    linkIdx,        \* position of the for..of loop (0: homepage)
    browser,        \* scanDynamic: let browser
    matched,        \* scanDynamic: matchedKeywords, while close() is awaited
    scans,          \* number of scanStatic / scanPage calls of the session
    response,       \* what has been sent on res
    html,           \* link extraction: the anchors of the homepage it loaded
    headResp,       \* what the liveness fetch gave (headResp / resp)
    accessToken,    \* let accessToken: the token cache of the process
    issued,         \* the tokens the OAuth endpoint has issued so far
    requests        \* the /sync requests in progress, each with its position

\* the state of a /dealer/check session
dealerVars == <<variant, inputUrl, pc, resolvedUrl, attempts, probed, siteActive,
                statusCode, results, result, scanUrl, candidateLinks, linkIdx,
                browser, matched, scans, response, html, headResp>>

\* the state of the /sync route
syncVars == <<accessToken, issued, requests>>

vars == <<dealerVars, syncVars>>

----------------------------------------------------------------------------
(* Bounds of the model *)

\* the longest "shop" homepage (number of anchors) the modelled web serves
MaxAnchors == 6

\* the longest "mixed" homepage (number of anchors) the modelled web serves
MaxMixedAnchors == 4

----------------------------------------------------------------------------
(* JavaScript values *)

\* a missing query parameter
Undefined == <<"undefined">>
\* a repeated query parameter (?url=a&url=b), which express parses to an array
QueryArray == <<"array">>
\* resolveUrl's `return null`
Null == <<"null">>
\* let statusCode = null
NoStatus == 0

IsString(v) == v \notin {Undefined, QueryArray, Null}

\* !v for the values a url can take
FalsyMutant(v) == v = <<>>
Falsy(v) == v \in {Undefined, Null, <<>>}

HTTPS == <<"h", "t", "t", "p", "s", ":", "/", "/">>
HTTP == <<"h", "t", "t", "p", ":", "/", "/">>
WWW == <<"w", "w", "w", ".">>
HTTP_PREFIX == <<"h", "t", "t", "p">>

\* String.prototype.startsWith
startsWith(s, p) == Len(s) >= Len(p) /\ SubSeq(s, 1, Len(p)) = p

RECURSIVE trimStart(_)
trimStart(s) == IF s # <<>> /\ Head(s) = " " THEN trimStart(Tail(s)) ELSE s

RECURSIVE trimEnd(_)
trimEnd(s) ==
    IF s # <<>> /\ s[Len(s)] = " " THEN trimEnd(SubSeq(s, 1, Len(s) - 1)) ELSE s

\* String.prototype.trim
trim(s) == trimEnd(trimStart(s))

----------------------------------------------------------------------------
(* The network, as resolveUrl and the liveness probe see it *)

\* where a redirecting site sends the client
RedirectUrl == HTTPS \o <<"b", "/">>

\* Response.url of a request that was not redirected: the serialised URL,
\* without surrounding blanks and with the root path
SerializedUrl(url) ==
    IF trim(url)[Len(trim(url))] = "/" THEN trim(url) ELSE trim(url) \o <<"/">>

\* a fetch that throws (DNS, TLS, timeout)
Threw == [threw |-> TRUE]

\* a fetch that returns a response
Responded(status, url) == [threw |-> FALSE, status |-> status, url |-> url]

\* the liveness fetch has not been awaited yet
NoFetch == [fetched |-> FALSE]

\* what a probe of url by resolveUrl can give
ProbeOutcomes(url) ==
    { Threw,
      Responded(200, SerializedUrl(url)),
      Responded(200, RedirectUrl),
      Responded(404, SerializedUrl(url)),
      Responded(503, SerializedUrl(url)) }

\* resp.status >= 200 && resp.status < 400 (index.js), < 500 (part_001)
IsLiveMutant(v, status) == status >= 200
IsLive(v, status) ==
    status >= 200 /\ status < (IF v = "index" THEN 400 ELSE 500)

----------------------------------------------------------------------------
(* resolveUrl *)

\* the candidate list, for the trimmed input
AttemptsOfMutant(input) ==
    <<HTTP \o input, HTTPS \o input>>
    \o (IF ~startsWith(input, WWW)
        THEN <<HTTPS \o WWW \o input, HTTP \o WWW \o input>>
        ELSE <<>>)
AttemptsOf(input) ==
    <<HTTPS \o input, HTTP \o input>>
    \o (IF ~startsWith(input, WWW)
        THEN <<HTTPS \o WWW \o input, HTTP \o WWW \o input>>
        ELSE <<>>)

\* the value returned for an input that already names its protocol
DirectReturnMutant(rawUrl) == rawUrl
DirectReturn(rawUrl) == trim(rawUrl)

\* the value returned when every attempt has failed
FallbackUrlMutant(input) == HTTP \o input
FallbackUrlNullMutant(input) == Null
FallbackUrl(input) == HTTPS \o input

\* the value returned for a live attempt
LiveReturn(url, resp) == resp.url

----------------------------------------------------------------------------
(* Keywords and pages *)

\* the head of DEFAULT_KEYWORDS that the modelled pages can contain
KEYWORDS == <<"apply", "apply now", "get approved">>

\* the link triggers that the modelled anchors can contain
LINK_TRIGGERS == << <<"b", "u", "y">>, <<"s", "h", "o", "p">> >>

\* candidateLinks.slice(0, 5)
FollowLimit == 5

\* [...new Set(arr)]: the first occurrence of each element, in order
RECURSIVE dedupeFrom(_, _)
dedupeFrom(arr, seen) ==
    IF arr = <<>> THEN <<>>
    ELSE IF Head(arr) \in seen THEN dedupeFrom(Tail(arr), seen)
    ELSE <<Head(arr)>> \o dedupeFrom(Tail(arr), seen \cup {Head(arr)})

dedupeMutant(arr) == arr
dedupe(arr) == dedupeFrom(arr, {})

\* A fetched page, by the keywords each part of it contains:
\*   html      the lower-cased markup          (index.js: html.toLowerCase())
\*   body      the lower-cased body text       ($('body').text())
\*   elements  the a / button / form elements, each with the keywords in its
\*             text, its href and its action
Element(tag, txt, href, action) ==
    [tag |-> tag, txt |-> txt, href |-> href, action |-> action]

PageNone == [html |-> {}, body |-> {}, elements |-> <<>>]

\* <a href="/apply">Apply Now</a> and a form posting to /apply
PageApply ==
    [html |-> {"apply", "apply now"},
     body |-> {"apply", "apply now"},
     elements |-> << Element("a", {"apply", "apply now"}, {"apply"}, {}),
                     Element("form", {}, {}, {"apply"}) >>]

\* the pages a fetch can deliver to the crawl; a fetch can also throw
FetchedPages == {PageNone, PageApply}

\* the keyword sets document.body.innerText can contain after rendering
RenderedTexts == {{}, {"get approved"}}

\* KEYWORDS.forEach(kw => { if (...) matchedKeywords.push(kw) }) is the
\* SelectSeq of KEYWORDS by the test.

\* the pushes of the $('a, button, form').each loop of scanStatic
RECURSIVE elementPushes(_, _)
elementPushes(els, tags) ==
    IF els = <<>> THEN <<>>
    ELSE LET el == Head(els)
             Hit(kw) == kw \in el.txt \/ kw \in el.href
                        \/ ("form" \in tags /\ kw \in el.action)
         IN (IF el.tag \in tags THEN SelectSeq(KEYWORDS, Hit) ELSE <<>>)
            \o elementPushes(Tail(els), tags)

\* matchedKeywords before deduplication
staticPushes(v, page) ==
    LET InText(kw) == kw \in (IF v = "index" THEN page.html ELSE page.body)
        tags == IF v = "index" THEN {"a", "button"} ELSE {"a", "button", "form"}
    IN SelectSeq(KEYWORDS, InText) \o elementPushes(page.elements, tags)

\* the catch branch of scanStatic / scanPage
staticErrorMutant(url) ==
    [url |-> url, error |-> "FetchError", hasCreditApp |-> TRUE,
     matchedKeywords |-> <<>>]
staticError(url) ==
    [url |-> url, error |-> "FetchError", hasCreditApp |-> FALSE,
     matchedKeywords |-> <<>>]

\* scanStatic / scanPage, given what the fetch delivered
scanStaticMutant(v, url, page) ==
    [url |-> url, hasCreditApp |-> TRUE,
     matchedKeywords |-> dedupe(staticPushes(v, page))]
scanStatic(v, url, page) ==
    [url |-> url,
     hasCreditApp |-> Len(staticPushes(v, page)) > 0,
     matchedKeywords |-> dedupe(staticPushes(v, page))]

\* the pushes of scanDynamic
dynamicPushes(text) ==
    LET InText(kw) == kw \in text IN SelectSeq(KEYWORDS, InText)

\* the value scanDynamic returns after a successful close
dynamicResult(url, pushes) ==
    [url |-> url, hasCreditApp |-> Len(pushes) > 0,
     matchedKeywords |-> dedupe(pushes), usedDynamic |-> TRUE]

\* the value scanDynamic returns from its catch branch
dynamicError(url) ==
    [url |-> url, error |-> "Puppeteer error", hasCreditApp |-> FALSE,
     matchedKeywords |-> <<>>, usedDynamic |-> TRUE]

\* r.error, undefined when the result has none
ErrorOf(r) == IF "error" \in DOMAIN r THEN r.error ELSE "undefined"

\* !r.error
NoError(r) == ErrorOf(r) = "undefined"

\* the variable `result` before any scan has returned
NoResult == [url |-> <<>>]

----------------------------------------------------------------------------
(* Link extraction *)

\* String.prototype.toLowerCase, on the letters the modelled anchors use
toLowerCase(s) ==
    [i \in 1..Len(s) |->
        CASE s[i] = "B" -> "b"
          [] s[i] = "S" -> "s"
          [] OTHER -> s[i]]

\* String.prototype.includes
includes(s, sub) ==
    \E i \in 1..(Len(s) - Len(sub) + 1) : SubSeq(s, i, i + Len(sub) - 1) = sub

AMP_ENTITY == <<"&", "a", "m", "p", ";">>

\* s.replace(/&amp;/g, "&")
RECURSIVE replaceAmp(_)
replaceAmp(s) ==
    IF s = <<>> THEN <<>>
    ELSE IF startsWith(s, AMP_ENTITY)
         THEN <<"&">> \o replaceAmp(SubSeq(s, Len(AMP_ENTITY) + 1, Len(s)))
         ELSE <<Head(s)>> \o replaceAmp(Tail(s))

\* what `new URL` gives when it throws
InvalidUrl == <<"TypeError">>

\* the length of the scheme of an absolute http(s) URL with a host, else 0
SchemeLen(u) ==
    IF startsWith(u, HTTPS) /\ Len(u) > Len(HTTPS) /\ u[Len(HTTPS) + 1] # "/"
    THEN Len(HTTPS)
    ELSE IF startsWith(u, HTTP) /\ Len(u) > Len(HTTP) /\ u[Len(HTTP) + 1] # "/"
    THEN Len(HTTP)
    ELSE 0

\* scheme and host of an absolute URL
Origin(u) ==
    LET from == SchemeLen(u) + 1
        slashes == {i \in from..Len(u) : u[i] = "/"}
        stop == IF slashes = {} THEN Len(u) + 1
                ELSE CHOOSE i \in slashes : \A j \in slashes : i <= j
    IN SubSeq(u, 1, stop - 1)

\* new URL(href, base).toString(), for an empty href, a path-absolute href, an
\* absolute http(s) href and a path relative to the root
newURL(href, base) ==
    IF SchemeLen(href) > 0 THEN SerializedUrl(href)
    ELSE IF startsWith(href, HTTP) \/ startsWith(href, HTTPS) THEN InvalidUrl
    ELSE IF SchemeLen(trim(base)) = 0 THEN InvalidUrl
    ELSE IF href = <<>> THEN SerializedUrl(base)
    ELSE IF Head(href) = "/" THEN Origin(trim(base)) \o href
    ELSE Origin(trim(base)) \o <<"/">> \o href

Anchor(href, txt) == [href |-> href, txt |-> txt]

\* LINK_TRIGGERS.some(trigger => href.includes(trigger) || txt.includes(trigger))
isTrigger(href, txt) ==
    \E k \in 1..Len(LINK_TRIGGERS) :
        includes(href, LINK_TRIGGERS[k]) \/ includes(txt, LINK_TRIGGERS[k])

\* $('a').each(...) of the handler: the candidate links of the anchors, or the
\* exception that leaves the loop.  index.js resolves the href as written and
\* does not catch; the later revisions normalise the href first and skip the
\* anchors whose href does not resolve.
RECURSIVE extractLinks(_, _, _)
extractLinks(v, anchors, base) ==
    IF anchors = <<>> THEN [threw |-> FALSE, links |-> <<>>]
    ELSE LET el == Head(anchors)
             href == IF v = "index" THEN el.href
                     ELSE replaceAmp(trim(toLowerCase(el.href)))
             txt == IF v = "index" THEN toLowerCase(el.txt)
                    ELSE trim(toLowerCase(el.txt))
             fullUrl == newURL(href, base)
             rest == extractLinks(v, Tail(anchors), base)
             here == IF isTrigger(toLowerCase(href), txt) THEN <<fullUrl>>
                     ELSE <<>>
         IN IF fullUrl = InvalidUrl
            THEN (IF v = "index" THEN [threw |-> TRUE, links |-> <<>>] ELSE rest)
            ELSE [threw |-> rest.threw, links |-> here \o rest.links]

\* candidateLinks.slice(0, 5)
sliceMutant(links) == links
sliceLastMutant(links) ==
    SubSeq(links, IF Len(links) < FollowLimit THEN 1 ELSE Len(links) - FollowLimit + 1,
           Len(links))
slice(links) ==
    SubSeq(links, 1, IF Len(links) < FollowLimit THEN Len(links) ELSE FollowLimit)

DIGITS == <<"1", "2", "3", "4", "5", "6", "7", "8", "9">>

\* The homepage documents of the modelled web, anchor by anchor.
\*   "shop"   every anchor is a candidate, and the third repeats the first:
\*            <a href="/Buy1">x</a>, <a href="/Buy2">x</a>, <a href="/Buy1">x</a>,
\*            <a href="/Buy4">x</a>, ...
\*   "mixed"  a text trigger, a href that does not resolve, a plain link, then
\*            candidates: <a href="/x1"> Shop </a>, <a href="http://">buy</a>,
\*            <a href="/x3">x</a>, <a href="/buy&amp;4">x</a>, ...
AnchorAt(doc, i) ==
    IF doc = "shop"
    THEN Anchor(<<"/", "B", "u", "y", DIGITS[IF i = 3 THEN 1 ELSE i]>>, <<"x">>)
    ELSE IF i = 1 THEN Anchor(<<"/", "x", "1">>, <<" ", "S", "h", "o", "p", " ">>)
    ELSE IF i = 2 THEN Anchor(HTTP, <<"b", "u", "y">>)
    ELSE IF i = 3 THEN Anchor(<<"/", "x", "3">>, <<"x">>)
    ELSE Anchor(<<"/", "b", "u", "y">> \o AMP_ENTITY \o <<DIGITS[i]>>, <<"x">>)

Document(doc, n) == [i \in 1..n |-> AnchorAt(doc, i)]

----------------------------------------------------------------------------
(* Responses *)

NoResponse == [status |-> 0]

\* res.status(400).json({ error: 'Missing ?url parameter' })
Response400 == [status |-> 400, body |-> [error |-> "Missing ?url parameter"]]

\* results.filter(r => r.hasCreditApp)
positivesMutant(rs) == rs
positives(rs) == SelectSeq(rs, LAMBDA r : r.hasCreditApp)

\* positives.length > 0
sessionVerdict(rs) == Len(positives(rs)) > 0

\* res.json({ inputUrl, resolvedUrl, siteActive, statusCode, hasCreditApp, hits })
Response200(rs) ==
    [status |-> 200,
     body |-> [inputUrl |-> inputUrl, resolvedUrl |-> resolvedUrl,
               siteActive |-> siteActive, statusCode |-> statusCode,
               hasCreditApp |-> sessionVerdict(rs), hits |-> positives(rs)]]

\* res.status(500).json({ inputUrl, resolvedUrl, error, hasCreditApp: false })
Response500 ==
    [status |-> 500,
     body |-> [inputUrl |-> inputUrl, resolvedUrl |-> resolvedUrl,
               error |-> "err.message", hasCreditApp |-> FALSE]]

\* What the client gets when the handler's promise rejects: the handler has no
\* catch around the call, so the answer is the framework's.  Express 4 leaves
\* the request unanswered, Express 5 sends its own error page.
RejectionResponses == {NoResponse, [status |-> 500, body |-> [html |-> "Error"]]}

----------------------------------------------------------------------------
(* The handler, from one await to the next *)

\* let accessToken = null
NoToken == 0

\* the process has served no /sync request
SyncIdle ==
    /\ accessToken = NoToken
    /\ issued = 0
    /\ requests = <<>>

Init ==
    /\ variant \in {"index", "part_001", "part_002"}
    /\ inputUrl \in {Undefined, QueryArray, <<"a">>, HTTPS \o <<"a", " ">>}
    /\ pc = "start"
    /\ resolvedUrl = Null
    /\ attempts = <<>>
    /\ probed = <<>>
    /\ siteActive = FALSE
    /\ statusCode = NoStatus
    /\ results = <<>>
    /\ result = NoResult
    /\ scanUrl = <<>>
    /\ candidateLinks = <<>>
    /\ linkIdx = 0
    /\ browser = "undefined"
    /\ matched = <<>>
    /\ scans = 0
    /\ response = NoResponse
    /\ html = <<>>
    /\ headResp = NoFetch
    /\ SyncIdle

\* the catch of the handler
Fail500 ==
    /\ pc' = "done"
    /\ response' = Response500

\* the filter and res.json at the end of the try block
Aggregate(rs) ==
    /\ pc' = "done"
    /\ response' = Response200(rs)

\* the call of scanStatic / scanPage, up to its fetch
StartScan(url, idx) ==
    /\ pc' = "static"
    /\ scanUrl' = url
    /\ linkIdx' = idx
    /\ scans' = scans + 1
    /\ response' = response

\* if (!homepageResult.error): whether the links of the homepage are collected
shouldExtractMutant(r) == TRUE
shouldExtract(r) == NoError(r)

\* results.push(r) for the page being scanned, and the handler up to its next
\* await: the fetch of link extraction, the scan of the next link, or the
\* response
PushResult(r) ==
    /\ results' = Append(results, r)
    /\ result' = r
    /\ IF linkIdx = 0
       THEN IF shouldExtract(r)
            THEN /\ pc' = "extract"
                 /\ UNCHANGED <<scanUrl, linkIdx, scans, response>>
            ELSE /\ Aggregate(Append(results, r))
                 /\ UNCHANGED <<scanUrl, linkIdx, scans>>
       ELSE IF linkIdx < Len(slice(candidateLinks))
            THEN StartScan(slice(candidateLinks)[linkIdx + 1], linkIdx + 1)
            ELSE /\ Aggregate(Append(results, r))
                 /\ UNCHANGED <<scanUrl, linkIdx, scans>>

\* resolveUrl(inputUrl), up to its first fetch or its return
ResolveUrl ==
    /\ pc = "start"
    /\ UNCHANGED <<html, headResp, syncVars>>
    /\ variant \in {"index", "part_001"}
    /\ UNCHANGED <<variant, inputUrl, siteActive, statusCode, results, result,
                   scanUrl, candidateLinks, linkIdx, browser, matched, scans>>
    /\ IF Falsy(inputUrl)
       THEN \* if (!rawUrl) return null
            /\ pc' = "resolved"
            /\ resolvedUrl' = Null
            /\ UNCHANGED <<attempts, probed, response>>
       ELSE IF ~IsString(inputUrl)
       THEN \* rawUrl.trim is not a function: the handler's promise rejects
            /\ pc' = "rejected"
            /\ response' \in RejectionResponses
            /\ UNCHANGED <<resolvedUrl, attempts, probed>>
       ELSE IF startsWith(trim(inputUrl), HTTP) \/ startsWith(trim(inputUrl), HTTPS)
       THEN /\ pc' = "resolved"
            /\ resolvedUrl' = DirectReturn(inputUrl)
            /\ UNCHANGED <<attempts, probed, response>>
       ELSE /\ pc' = "probing"
            /\ attempts' = AttemptsOf(trim(inputUrl))
            /\ UNCHANGED <<resolvedUrl, probed, response>>

\* one turn of resolveUrl's loop: the fetch of the next attempt returns or throws
ProbeAttempt ==
    /\ pc = "probing"
    /\ UNCHANGED <<html, headResp, syncVars>>
    /\ UNCHANGED <<variant, inputUrl, attempts, siteActive, statusCode, results,
                   result, scanUrl, candidateLinks, linkIdx, browser, matched,
                   scans, response>>
    /\ LET url == attempts[Len(probed) + 1]
       IN \E resp \in ProbeOutcomes(url) :
             /\ probed' = Append(probed, [url |-> url, resp |-> resp])
             /\ IF ~resp.threw /\ IsLive(variant, resp.status)
                THEN /\ pc' = "resolved"
                     /\ resolvedUrl' = LiveReturn(url, resp)
                ELSE IF Len(probed) + 1 < Len(attempts)
                THEN \* on to the next attempt
                     /\ pc' = "probing"
                     /\ resolvedUrl' = resolvedUrl
                ELSE /\ pc' = "resolved"
                     /\ resolvedUrl' = FallbackUrl(trim(inputUrl))


\* if (!resolvedUrl) return res.status(400)...; otherwise the liveness fetch
AfterResolve ==
    /\ pc = "resolved"
    /\ UNCHANGED <<html, headResp, syncVars>>
    /\ UNCHANGED <<variant, inputUrl, resolvedUrl, siteActive, statusCode,
                   results, result, scanUrl, candidateLinks, linkIdx, browser,
                   matched, scans>>
    /\ IF Falsy(resolvedUrl)
       THEN /\ pc' = "done"
            /\ response' = Response400
            /\ UNCHANGED <<attempts, probed>>
       ELSE \* resolveUrl's frame is gone
            /\ pc' = "liveness"
            /\ response' = response
            /\ attempts' = <<>>
            /\ probed' = <<>>

\* part_002 has no resolveUrl: the handler checks and prefixes the input itself
InlineResolve ==
    /\ pc = "start"
    /\ UNCHANGED <<html, headResp, syncVars>>
    /\ variant = "part_002"
    /\ UNCHANGED <<variant, inputUrl, attempts, probed, siteActive, statusCode,
                   results, result, scanUrl, candidateLinks, linkIdx, browser,
                   matched, scans>>
    /\ IF Falsy(inputUrl)
       THEN /\ pc' = "done"
            /\ response' = Response400
            /\ resolvedUrl' = resolvedUrl
       ELSE IF ~IsString(inputUrl)
       THEN \* inputUrl.startsWith is not a function
            /\ pc' = "rejected"
            /\ response' \in RejectionResponses
            /\ resolvedUrl' = resolvedUrl
       ELSE /\ pc' = "liveness"
            /\ response' = response
            /\ resolvedUrl' = IF startsWith(inputUrl, HTTP_PREFIX) THEN inputUrl
                              ELSE HTTPS \o inputUrl

\* what the liveness fetch of url can give
LivenessOutcomes(url) ==
    { Threw,
      Responded(200, SerializedUrl(url)),
      Responded(404, RedirectUrl),
      Responded(503, SerializedUrl(url)) }

\* the site-active check, then the call of the homepage scan
LivenessProbe ==
    /\ pc = "liveness"
    /\ UNCHANGED <<html, syncVars>>
    /\ UNCHANGED <<variant, inputUrl, attempts, probed, results, result,
                   candidateLinks, browser, matched>>
    /\ \E resp \in LivenessOutcomes(resolvedUrl) :
          /\ headResp' = resp
          /\ IF resp.threw
             THEN /\ siteActive' = FALSE
                  /\ UNCHANGED <<statusCode, resolvedUrl>>
                  /\ StartScan(resolvedUrl, 0)
             ELSE /\ statusCode' = resp.status
                  /\ siteActive' = IsLive(variant, resp.status)
                  /\ resolvedUrl' = resp.url
                  /\ StartScan(resp.url, 0)

\* if (!result.hasCreditApp) result = await scanDynamic(url)
needsDynamicMutant(r) == r.hasCreditApp
needsDynamic(r) == ~r.hasCreditApp

\* scanStatic / scanPage returns, and the handler runs up to its next await
StaticScan ==
    /\ pc = "static"
    /\ UNCHANGED <<html, headResp, syncVars>>
    /\ UNCHANGED <<variant, inputUrl, resolvedUrl, attempts, probed, siteActive,
                   statusCode, candidateLinks, browser, matched>>
    /\ \E r \in {staticError(scanUrl)}
                \cup {scanStatic(variant, scanUrl, page) : page \in FetchedPages} :
          IF variant # "index" /\ needsDynamic(r)
          THEN \* scanDynamic(url), up to puppeteer.launch
               /\ pc' = "dyn_launch"
               /\ result' = r
               /\ UNCHANGED <<results, scanUrl, linkIdx, scans, response>>
          ELSE PushResult(r)


\* the second fetch of the homepage, the $('a').each loop, and the start of
\* the for..of loop over candidateLinks.slice(0, 5)
ExtractLinks ==
    /\ pc = "extract"
    /\ UNCHANGED <<headResp, syncVars>>
    /\ UNCHANGED <<variant, inputUrl, resolvedUrl, attempts, probed, siteActive,
                   statusCode, results, result, browser, matched>>
    /\ \/ \* fetch or response.text() throws: the handler's catch
          /\ Fail500
          /\ UNCHANGED <<html, candidateLinks, scanUrl, linkIdx, scans>>
       \/ \E doc \in {"shop", "mixed"}, n \in 0..MaxAnchors :
             /\ doc = "mixed" => n <= MaxMixedAnchors
             /\ html' = Document(doc, n)
             /\ LET found == extractLinks(variant, Document(doc, n), resolvedUrl)
                IN IF found.threw
                   THEN /\ Fail500
                        /\ UNCHANGED <<candidateLinks, scanUrl, linkIdx, scans>>
                   ELSE /\ candidateLinks' = found.links
                        /\ IF slice(found.links) = <<>>
                           THEN /\ Aggregate(results)
                                /\ UNCHANGED <<scanUrl, linkIdx, scans>>
                           ELSE StartScan(slice(found.links)[1], 1)

\* puppeteer.launch returns or throws
DynLaunch ==
    /\ pc = "dyn_launch"
    /\ UNCHANGED <<html, headResp, syncVars>>
    /\ UNCHANGED <<variant, inputUrl, resolvedUrl, attempts, probed, siteActive,
                   statusCode, candidateLinks, matched>>
    /\ \/ \* launch throws: browser is undefined in the catch, nothing to close
          /\ browser' = browser
          /\ PushResult(dynamicError(scanUrl))
       \/ /\ browser' = "open"
          /\ pc' = "dyn_render"
          /\ UNCHANGED <<results, result, scanUrl, linkIdx, scans, response>>

\* newPage, goto and evaluate return, or one of them throws
DynRender ==
    /\ pc = "dyn_render"
    /\ UNCHANGED <<html, headResp, syncVars>>
    /\ UNCHANGED <<variant, inputUrl, resolvedUrl, attempts, probed, siteActive,
                   statusCode, results, result, scanUrl, candidateLinks,
                   linkIdx, browser, scans, response>>
    /\ \/ \* into the catch, which awaits browser.close()
          /\ pc' = "dyn_catch"
          /\ matched' = matched
       \/ \E text \in RenderedTexts :
             /\ pc' = "dyn_close"
             /\ matched' = dynamicPushes(text)

\* the browser.close() of the try block returns or throws
DynClose ==
    /\ pc = "dyn_close"
    /\ UNCHANGED <<html, headResp, syncVars>>
    /\ UNCHANGED <<variant, inputUrl, resolvedUrl, attempts, probed, siteActive,
                   statusCode, candidateLinks>>
    /\ matched' = <<>>
    /\ \/ /\ browser' = "undefined"
          /\ PushResult(dynamicResult(scanUrl, matched))
       \/ \* close throws: into the catch, which awaits browser.close() again
          /\ pc' = "dyn_catch"
          /\ UNCHANGED <<browser, results, result, scanUrl, linkIdx, scans,
                         response>>

\* the browser.close() of the catch block returns or throws
DynCatchClose ==
    /\ pc = "dyn_catch"
    /\ UNCHANGED <<html, headResp, syncVars>>
    /\ UNCHANGED <<variant, inputUrl, resolvedUrl, attempts, probed, siteActive,
                   statusCode, candidateLinks, matched>>
    /\ \/ /\ browser' = "undefined"
          /\ PushResult(dynamicError(scanUrl))
       \/ \* close throws out of scanDynamic: the handler's catch
          /\ Fail500
          /\ UNCHANGED <<browser, results, result, scanUrl, linkIdx, scans>>

Next ==
    \/ ResolveUrl
    \/ ProbeAttempt
    \/ AfterResolve
    \/ InlineResolve
    \/ LivenessProbe
    \/ StaticScan
    \/ ExtractLinks
    \/ DynLaunch
    \/ DynRender
    \/ DynClose
    \/ DynCatchClose

Spec == Init /\ [][Next]_vars

----------------------------------------------------------------------------
(* resolveUrl on its own, over more inputs *)

ResolverInputs ==
    { Undefined, QueryArray, <<>>, <<" ">>,
      <<"a">>, <<"a", " ">>, <<" ", "a">>,
      WWW \o <<"a">>,
      HTTP_PREFIX \o <<".", "a">>,
      HTTPS \o <<"a">>, HTTP \o <<"a">>,
      HTTPS \o <<"a", " ">>, <<" ">> \o HTTP \o <<"a">> }

InitResolver ==
    /\ variant \in {"index", "part_001"}
    /\ inputUrl \in ResolverInputs
    /\ pc = "start"
    /\ resolvedUrl = Null
    /\ attempts = <<>>
    /\ probed = <<>>
    /\ siteActive = FALSE
    /\ statusCode = NoStatus
    /\ results = <<>>
    /\ result = NoResult
    /\ scanUrl = <<>>
    /\ candidateLinks = <<>>
    /\ linkIdx = 0
    /\ browser = "undefined"
    /\ matched = <<>>
    /\ scans = 0
    /\ response = NoResponse
    /\ html = <<>>
    /\ headResp = NoFetch
    /\ SyncIdle

NextResolver ==
    \/ ResolveUrl
    \/ ProbeAttempt

SpecResolver == InitResolver /\ [][NextResolver]_vars

----------------------------------------------------------------------------
(* The /sync/:oppId route, with the token cache its requests share *)

\* The revisions of the route:
\*   "index"      src/index.js             JSON or redirect, in try and catch
\*   "part_000"   src/unnamed/part_000     the same, with logging
\*   "part_002"   src/unnamed/part_002     first file: the catch answers JSON
\*   "part_002b"  src/unnamed/part_002     second file: always a redirect
SyncVariants == {"index", "part_000", "part_002", "part_002b"}

\* the number of /sync requests the process receives
MaxRequests == 2

\* sfResponse.status === 401
Unauthorized == 401

\* the Accept headers of the callers
Accepts == {"application/json", "text/html"}

\* req.headers['accept']?.includes('application/json')
WantsJson(req) == req.accept = "application/json"

\* if (!accessToken)
needsTokenMutant(tok) == FALSE
needsTokenAlwaysMutant(tok) == TRUE
needsToken(tok) == tok = NoToken

\* if (sfResponse.status === 401)
shouldRetryMutant(status) == TRUE
shouldRetry(status) == status = Unauthorized

\* err.message of the exceptions the handler can catch, in parts
FetchFailed == <<"request failed, reason: ", "ECONNRESET">>
ParseFailed == <<"invalid json response body">>
AuthFailed(v) ==
    IF v = "part_002b"
    THEN <<"Failed to authenticate with Salesforce: ", "400", " ", "invalid_grant">>
    ELSE <<"Auth failed: ", "invalid_grant">>

\* the statuses the remote action answers with
ForwardStatuses == {200, Unauthorized, 500}

\* what sfResponse.json() can give for a status: the remote's own JSON, or the
\* error array of the platform, which has no status field
SfBodies(status) ==
    IF status = 200
    THEN { [status |-> "SUCCESS", message |-> "undefined"],
           [status |-> "FAIL", message |-> "No lender"] }
    ELSE { [status |-> "undefined", message |-> "undefined"] }

\* data.status === 'SUCCESS' ? 'Status Updated Successfully' : `Error: ${data.message}`
MessageOf(data) ==
    IF data.status = "SUCCESS" THEN <<"Status Updated Successfully">>
    ELSE <<"Error: ", data.message>>

\* res.json / res.status(500).json
JsonResponse(status, bodyStatus, message) ==
    [kind |-> "json", status |-> status,
     body |-> [status |-> bodyStatus, message |-> message]]

\* res.redirect(`${CONFIRM_URL}?message=${encodeURIComponent(message)}`), with
\* the message as the confirmation page decodes it
RedirectResponse(message) ==
    [kind |-> "redirect", status |-> 302,
     location |-> [url |-> "CONFIRM_URL", message |-> message]]

\* the end of the try block
SyncReply(v, req, data) ==
    IF v # "part_002b" /\ WantsJson(req)
    THEN JsonResponse(200, data.status, MessageOf(data))
    ELSE RedirectResponse(MessageOf(data))

\* the catch block
SyncCatchResponseMutant(v, req, err) == RedirectResponse(<<"Exception: ">> \o err)
SyncCatchResponse(v, req, err) ==
    IF v = "part_002" \/ (v \in {"index", "part_000"} /\ WantsJson(req))
    THEN JsonResponse(500, "FAIL", err)
    ELSE RedirectResponse(<<"Exception: ">> \o err)

\* a request whose handler has not run yet
NewRequest(accept) ==
    [pc |-> "start", accept |-> accept, retrying |-> FALSE, pending |-> NoToken,
     sfResponse |-> NoStatus, log |-> <<>>, response |-> NoResponse]

\* what a request has sent and received so far
Exchange == [e |-> "exchange"]
Granted(token) == [e |-> "granted", token |-> token]
Forward(token) == [e |-> "forward", token |-> token]
Status(status) == [e |-> "status", status |-> status]
Data(data) == [e |-> "data", data |-> data]
Thrown(err) == [e |-> "threw", err |-> err]

\* an exception reaches the catch of the handler of request r
SyncCatch(r, err) ==
    requests' = [requests EXCEPT ![r] =
        [@ EXCEPT !.pc = "done",
                  !.log = Append(@, Thrown(err)),
                  !.response = SyncCatchResponse(variant, requests[r], err)]]

\* getAccessToken(), up to its fetch
CallGetAccessToken(req) ==
    [req EXCEPT !.pc = "token_fetch", !.log = Append(@, Exchange)]

\* fetch(.../syndication/request) with the token of the cache, up to its await
CallForward(req, token) ==
    [req EXCEPT !.pc = "forward", !.log = Append(@, Forward(token))]

\* a request arrives and its handler runs up to its first await.  The route
\* pattern gives a non-empty oppId, so `if (!oppId)` is not taken.
SyncArrive ==
    /\ Len(requests) < MaxRequests
    /\ UNCHANGED <<dealerVars, accessToken, issued>>
    /\ \E accept \in Accepts :
          requests' = Append(requests,
              IF needsToken(accessToken)
              THEN CallGetAccessToken(NewRequest(accept))
              ELSE CallForward(NewRequest(accept), accessToken))

\* the fetch of getAccessToken returns or throws, and `if (!res.ok) throw`
TokenResponse ==
    \E r \in 1..Len(requests) :
        /\ requests[r].pc = "token_fetch"
        /\ UNCHANGED <<dealerVars, accessToken>>
        /\ \/ /\ SyncCatch(r, FetchFailed)
              /\ issued' = issued
           \/ /\ SyncCatch(r, AuthFailed(variant))
              /\ issued' = issued
           \/ \* the endpoint issues a token
              /\ issued' = issued + 1
              /\ requests' = [requests EXCEPT ![r] =
                     [@ EXCEPT !.pc = "token_json",
                               !.pending = issued + 1,
                               !.log = Append(@, Granted(issued + 1))]]

\* res.json() of getAccessToken resolves or throws; accessToken = data.access_token
TokenStore ==
    \E r \in 1..Len(requests) :
        /\ requests[r].pc = "token_json"
        /\ UNCHANGED <<dealerVars, issued>>
        /\ \/ /\ SyncCatch(r, ParseFailed)
              /\ accessToken' = accessToken
           \/ /\ accessToken' = requests[r].pending
              /\ requests' = [requests EXCEPT ![r] =
                     [@ EXCEPT !.pc = "token_done", !.pending = NoToken]]

\* the handler resumes after `await getAccessToken()` and calls the remote
\* action with the token the cache holds then
SendForward ==
    \E r \in 1..Len(requests) :
        /\ requests[r].pc = "token_done"
        /\ UNCHANGED <<dealerVars, accessToken, issued>>
        /\ requests' = [requests EXCEPT ![r] = CallForward(@, accessToken)]

\* the fetch of the remote action returns or throws
ForwardResponse ==
    \E r \in 1..Len(requests) :
        /\ requests[r].pc = "forward"
        /\ UNCHANGED <<dealerVars, accessToken, issued>>
        /\ \/ SyncCatch(r, FetchFailed)
           \/ \E status \in ForwardStatuses :
                 requests' = [requests EXCEPT ![r] =
                     LET got == [@ EXCEPT !.sfResponse = status,
                                          !.log = Append(@, Status(status))]
                     IN IF ~got.retrying /\ shouldRetry(status)
                        THEN CallGetAccessToken([got EXCEPT !.retrying = TRUE])
                        ELSE [got EXCEPT !.pc = "body"]]

\* sfResponse.json() resolves or throws, and the response is sent
ReadBody ==
    \E r \in 1..Len(requests) :
        /\ requests[r].pc = "body"
        /\ UNCHANGED <<dealerVars, accessToken, issued>>
        /\ \/ SyncCatch(r, ParseFailed)
           \/ \E data \in SfBodies(requests[r].sfResponse) :
                 requests' = [requests EXCEPT ![r] =
                     [@ EXCEPT !.pc = "done",
                               !.log = Append(@, Data(data)),
                               !.response = SyncReply(variant, requests[r], data)]]

InitSync ==
    /\ variant \in SyncVariants
    /\ inputUrl = Undefined
    /\ pc = "start"
    /\ resolvedUrl = Null
    /\ attempts = <<>>
    /\ probed = <<>>
    /\ siteActive = FALSE
    /\ statusCode = NoStatus
    /\ results = <<>>
    /\ result = NoResult
    /\ scanUrl = <<>>
    /\ candidateLinks = <<>>
    /\ linkIdx = 0
    /\ browser = "undefined"
    /\ matched = <<>>
    /\ scans = 0
    /\ response = NoResponse
    /\ html = <<>>
    /\ headResp = NoFetch
    /\ SyncIdle

NextSync ==
    \/ SyncArrive
    \/ TokenResponse
    \/ TokenStore
    \/ SendForward
    \/ ForwardResponse
    \/ ReadBody

SpecSync == InitSync /\ [][NextSync]_vars

----------------------------------------------------------------------------
(* Properties of the crawl *)

DynamicPcs == {"dyn_launch", "dyn_render", "dyn_close", "dyn_catch"}

HasDynamicScanner == variant \in {"part_001", "part_002"}

Answered200 == pc = "done" /\ response.status = 200

\* C1: a session scans at most 6 pages and results holds at most 6 entries: the
\* first is the homepage's, the others, at most 5, are those of the first
\* extracted links, however many links were extracted.
C1_AtMostSixPages ==
    /\ scans <= 6
    /\ Len(results) <= 6
    /\ Len(results) <= scans
    /\ Len(results) >= 1 => results[1].url = resolvedUrl
    /\ Len(results) - 1 <= 5
    /\ Len(results) - 1 <= Len(candidateLinks)
    /\ \A i \in 2..Len(results) : results[i].url = candidateLinks[i - 1]
    /\ Answered200 => Len(results) >= 1

\* a session that extracted more than 5 links and answered after 6 pages
C1_Witness ==
    /\ Answered200
    /\ Len(candidateLinks) > 5
    /\ Len(results) = 6
    /\ scans = 6

\* C2: where a dynamic scanner exists, a static scan that finds no match and
\* reports no error is followed at once by the dynamic scan of the same page,
\* and a static scan that finds a match is stored as the page's result; a
\* dynamic scan in progress is always for a page whose static scan found no
\* match.
C2_DynamicFallback ==
    /\ [][(pc = "static" /\ HasDynamicScanner) =>
            /\ (~result'.hasCreditApp /\ NoError(result')) =>
                   /\ pc' = "dyn_launch"
                   /\ scanUrl' = scanUrl
                   /\ results' = results
            /\ result'.hasCreditApp =>
                   /\ pc' \notin DynamicPcs
                   /\ results' = Append(results, result')
                   /\ "usedDynamic" \notin DOMAIN result']_vars
    /\ [](pc \in DynamicPcs =>
            /\ HasDynamicScanner
            /\ ~result.hasCreditApp
            /\ result.url = scanUrl)

\* a page with a static match has been stored and the dynamic scan of a later
\* page, whose static scan found nothing and reported no error, is rendering
C2_Witness ==
    /\ pc = "dyn_render"
    /\ NoError(result)
    /\ ~result.hasCreditApp
    /\ \E i \in 1..Len(results) :
          results[i].hasCreditApp /\ "usedDynamic" \notin DOMAIN results[i]

\* C3: the dynamic scanner runs for a page only when the page's static result
\* has hasCreditApp = false and carries no fetch error.
C3_DynamicOnlyWithoutFetchError ==
    pc \in DynamicPcs => ~result.hasCreditApp /\ NoError(result)

\* C7: in every 200 response, hits holds only results whose hasCreditApp is
\* true, none of which carries an error.
C7_HitsArePositive ==
    Answered200 =>
        \A i \in 1..Len(response.body.hits) :
            /\ response.body.hits[i].hasCreditApp
            /\ NoError(response.body.hits[i])

\* a 200 response after a positive, a negative and an errored page
C7_Witness ==
    /\ Answered200
    /\ Len(response.body.hits) >= 1
    /\ \E i \in 1..Len(results) : ~NoError(results[i])
    /\ \E i \in 1..Len(results) : NoError(results[i]) /\ ~results[i].hasCreditApp

\* C8: the hasCreditApp of the response is true if and only if some page
\* result of the session has hasCreditApp = true.
C8_VerdictIffSomeMatch ==
    (pc = "done" /\ "hasCreditApp" \in DOMAIN response.body) =>
        (response.body.hasCreditApp <=>
            \E i \in 1..Len(results) : results[i].hasCreditApp)

\* C9: a request that has run to its end was answered with a 400, a 200 or a
\* 500, and a 500 carries hasCreditApp = false.
C9_AlwaysAnswered ==
    pc \in {"done", "rejected"} =>
        /\ response.status \in {400, 200, 500}
        /\ response.status = 500 =>
              /\ "hasCreditApp" \in DOMAIN response.body
              /\ response.body.hasCreditApp = FALSE

\* C10: when the homepage's result has error set, no link is extracted or
\* scanned, and the answer is a 200 with hasCreditApp = false and no hits.
C10_HomepageErrorStopsCrawl ==
    (Len(results) >= 1 /\ ~NoError(results[1])) =>
        /\ pc = "done"
        /\ candidateLinks = <<>>
        /\ Len(results) = 1
        /\ scans = 1
        /\ response.status = 200
        /\ response.body.hasCreditApp = FALSE
        /\ response.body.hits = <<>>

\* the homepage could not be fetched and the request has been answered
C10_Witness ==
    /\ pc = "done"
    /\ Len(results) = 1
    /\ ErrorOf(results[1]) = "FetchError"

----------------------------------------------------------------------------
(* Properties of resolveUrl *)

\* a string input that names no protocol once its blanks are trimmed
NeedsProbing(raw) ==
    /\ IsString(raw)
    /\ raw # <<>>
    /\ ~startsWith(trim(raw), HTTP)
    /\ ~startsWith(trim(raw), HTTPS)

\* the candidates of the claim, in the claim's order
ClaimedCandidates(input) ==
    IF startsWith(input, WWW)
    THEN <<HTTPS \o input, HTTP \o input>>
    ELSE <<HTTPS \o input, HTTP \o input,
           HTTPS \o WWW \o input, HTTP \o WWW \o input>>

\* the probe got a response with a status of the revision's live range
LiveProbe(p) == ~p.resp.threw /\ IsLive(variant, p.resp.status)

\* C4: for an input without protocol the probes follow the fixed candidate
\* order, every probe before the last one made has failed, and a live probe
\* ends the resolution with its post-redirect URL.
C4_ProbeOrder ==
    (NeedsProbing(inputUrl) /\ pc \in {"probing", "resolved"}) =>
        LET cands == ClaimedCandidates(trim(inputUrl))
        IN /\ Len(probed) <= Len(cands)
           /\ \A i \in 1..Len(probed) : probed[i].url = cands[i]
           /\ \A i \in 1..(Len(probed) - 1) : ~LiveProbe(probed[i])
           /\ pc = "probing" =>
                 /\ Len(probed) < Len(cands)
                 /\ \A i \in 1..Len(probed) : ~LiveProbe(probed[i])
           /\ pc = "resolved" =>
                 /\ Len(probed) >= 1
                 /\ LiveProbe(probed[Len(probed)]) =>
                       resolvedUrl = probed[Len(probed)].resp.url
                 /\ ~LiveProbe(probed[Len(probed)]) => Len(probed) = Len(cands)

\* the third candidate was the first live one, and it redirected
C4_Witness ==
    /\ pc = "resolved"
    /\ NeedsProbing(inputUrl)
    /\ Len(probed) = 3
    /\ LiveProbe(probed[3])
    /\ resolvedUrl = RedirectUrl
    /\ resolvedUrl # probed[3].url

\* the raw input starts with http:// or https://
HasProtocol(raw) ==
    IsString(raw) /\ (startsWith(raw, HTTP) \/ startsWith(raw, HTTPS))

\* C5, as claimed: an input that starts with http:// or https:// is returned
\* unchanged, without any probe.
C5_ReturnedUnchanged ==
    (pc = "resolved" /\ HasProtocol(inputUrl)) =>
        resolvedUrl = inputUrl /\ probed = <<>>

\* C5, amended: an input that starts with http:// or https:// is returned
\* without its trailing blanks, and otherwise unchanged, without any probe.
C5_ReturnedTrimmed ==
    (pc = "resolved" /\ HasProtocol(inputUrl)) =>
        /\ probed = <<>>
        /\ Len(resolvedUrl) <= Len(inputUrl)
        /\ resolvedUrl = SubSeq(inputUrl, 1, Len(resolvedUrl))
        /\ resolvedUrl[Len(resolvedUrl)] # " "
        /\ \A i \in (Len(resolvedUrl) + 1)..Len(inputUrl) : inputUrl[i] = " "

\* an input with a protocol and a trailing blank has been resolved
C5_Witness ==
    /\ pc = "resolved"
    /\ HasProtocol(inputUrl)
    /\ inputUrl[Len(inputUrl)] = " "
    /\ resolvedUrl # Null

\* C6: when every probe has failed, resolveUrl returns https://<input>, for
\* the trimmed input, whatever the failures were.
C6_FallbackUrl ==
    (pc = "resolved" /\ NeedsProbing(inputUrl)
        /\ \A i \in 1..Len(probed) : ~LiveProbe(probed[i])) =>
        resolvedUrl = HTTPS \o trim(inputUrl)

\* four probes have failed, one by throwing, one with a 5xx status
C6_Witness ==
    /\ pc = "resolved"
    /\ NeedsProbing(inputUrl)
    /\ Len(probed) = 4
    /\ \A i \in 1..4 : ~LiveProbe(probed[i])
    /\ \E i \in 1..4 : probed[i].resp.threw
    /\ \E i \in 1..4 : ~probed[i].resp.threw /\ probed[i].resp.status = 503
    /\ resolvedUrl = HTTPS \o <<"a">>

----------------------------------------------------------------------------
(* Properties of the request check and of the scanners *)

\* C11: a request without the url parameter is answered 400 with an error
\* body, and nothing else happens for it: no probe, no liveness fetch, no page
\* fetch, no render, no link extraction.
C11_MissingUrlIs400 ==
    inputUrl = Undefined =>
        /\ pc \in {"start", "resolved", "done"}
        /\ response = (IF pc = "done" THEN Response400 ELSE NoResponse)
        /\ attempts = <<>> /\ probed = <<>>
        /\ statusCode = NoStatus /\ siteActive = FALSE
        /\ scans = 0 /\ results = <<>> /\ result = NoResult
        /\ browser = "undefined" /\ matched = <<>>
        /\ candidateLinks = <<>>

\* the request without url has been answered
C11_Witness ==
    /\ inputUrl = Undefined
    /\ pc = "done"
    /\ response.status = 400
    /\ "error" \in DOMAIN response.body

\* the page results the session holds: the stored ones and the one in hand
PageScanResults ==
    {results[i] : i \in 1..Len(results)} \cup (IF result = NoResult THEN {} ELSE {result})

\* C12: in every page result of the static or of the dynamic scanner,
\* hasCreditApp is true exactly when matchedKeywords is not empty.
C12_MatchIffKeywords ==
    \A r \in PageScanResults : r.hasCreditApp <=> r.matchedKeywords # <<>>

\* a session holding a static hit, a dynamic hit, a dynamic miss and an error
C12_Witness ==
    /\ \E r \in PageScanResults :
          "usedDynamic" \notin DOMAIN r /\ r.hasCreditApp
    /\ \E r \in PageScanResults :
          "usedDynamic" \in DOMAIN r /\ r.hasCreditApp
    /\ \E r \in PageScanResults :
          "usedDynamic" \in DOMAIN r /\ ~r.hasCreditApp /\ NoError(r)
    /\ \E r \in PageScanResults : ~NoError(r)

\* C13: the matched keywords of every page result are keywords of KEYWORDS,
\* and none is listed twice, however many parts of the page matched it.
C13_KeywordsOnceEach ==
    \A r \in PageScanResults :
        LET mk == r.matchedKeywords
        IN /\ \A i \in 1..Len(mk) : \E k \in 1..Len(KEYWORDS) : mk[i] = KEYWORDS[k]
           /\ \A i, j \in 1..Len(mk) : mk[i] = mk[j] => i = j

\* a stored result of a page whose body text and whose elements matched the
\* same keyword several times
C13_Witness ==
    /\ Len(staticPushes(variant, PageApply)) > Len(dedupe(staticPushes(variant, PageApply)))
    /\ \E i \in 1..Len(results) :
          /\ results[i] = scanStatic(variant, results[i].url, PageApply)
          /\ Len(results[i].matchedKeywords) = 2

----------------------------------------------------------------------------
(* Properties of the failure paths *)

\* the href of an anchor as the running revision hands it to new URL
HrefOf(a) == IF variant = "index" THEN a.href ELSE replaceAmp(trim(toLowerCase(a.href)))

\* new URL(href, resolvedUrl) throws for the anchor
Unresolvable(a) == newURL(HrefOf(a), resolvedUrl) = InvalidUrl

HasUnresolvable == \E i \in 1..Len(html) : Unresolvable(html[i])

\* C16: a failure local to a page (the fetch or the render of the homepage or
\* of a followed link, the second fetch of the homepage) never aborts the
\* crawl: a session that has begun to scan ends with a 200 response.  Sessions
\* whose homepage has an anchor that does not resolve are left to C20.
C16_PageFailuresNeverAbort ==
    (pc = "done" /\ scans > 0 /\ ~HasUnresolvable) => response.status = 200

\* C17: outside scanDynamic no browser is open: the one launched for a page is
\* closed when the scanner returns or throws, so none is open while the next
\* page is scanned or when the response is sent.
C17_BrowserClosedOutsideScanner ==
    pc \notin DynamicPcs => browser = "undefined"

\* C18: when the static fetch of a page fails, the entry pushed to results
\* for that page has error set.  While scanDynamic runs, `result` is the
\* result of the static scan of the page.
C18_FetchErrorRecorded ==
    [][ (/\ ErrorOf(result) = "FetchError"
         /\ pc \in DynamicPcs
         /\ Len(results') = Len(results) + 1)
        => ~NoError(results'[Len(results')]) ]_vars

\* the anchors of the homepage whose href resolves
Resolvable == SelectSeq(html, LAMBDA a : ~Unresolvable(a))

\* C20: an anchor whose href does not resolve is skipped: the candidate links
\* are those of the other anchors, no result is kept for it, and the session is
\* not ended by it.
C20_MalformedHrefSkipped ==
    HasUnresolvable =>
        /\ candidateLinks = extractLinks(variant, Resolvable, resolvedUrl).links
        /\ \A i \in 1..Len(candidateLinks) : candidateLinks[i] # InvalidUrl
        /\ \A i \in 1..Len(results) : results[i].url # InvalidUrl
        /\ ~(pc = "done" /\ response.status = 500 /\ scans = 1 /\ browser = "undefined")

----------------------------------------------------------------------------
(* Properties of the /sync route *)

\* the positions in the log of a request of its calls of the remote action
Forwards(q) == {i \in 1..Len(q.log) : q.log[i].e = "forward"}

\* the positions in the log of a request of its calls of the OAuth endpoint
Exchanges(q) == {i \in 1..Len(q.log) : q.log[i].e = "exchange"}

\* the request was answered by the catch block
Caught(q) == q.pc = "done" /\ q.log[Len(q.log)].e = "threw"

\* the request was answered by the try block
Replied(q) == q.pc = "done" /\ q.log[Len(q.log)].e = "data"

\* C14: a request calls the remote action at most twice.  A second call comes
\* only after the first was answered 401 and the one token exchange made then
\* succeeded; a first 401 starts exactly one exchange, and the request does not
\* read a body before it has retried; after a 401 on the retry the request only
\* reads the body and answers.
C14_OneRefreshOneRetry ==
    \A r \in 1..Len(requests) :
        LET q == requests[r]
            log == q.log
            fw == Forwards(q)
        IN /\ Cardinality(fw) <= 2
           /\ \A i, j \in fw :
                 i < j =>
                    /\ j = i + 4
                    /\ log[i + 1] = Status(Unauthorized)
                    /\ log[i + 2] = Exchange
                    /\ log[i + 3].e = "granted"
                    /\ Len(log) <= j + 2
                    /\ Len(log) = j + 2 => log[j + 2].e \in {"data", "threw"}
           /\ \A i \in fw :
                 ((\A k \in fw : i <= k) /\ Len(log) > i
                    /\ log[i + 1] = Status(Unauthorized)) =>
                    /\ log[i + 2] = Exchange
                    /\ Cardinality({k \in Exchanges(q) : k > i}) = 1
                    /\ (q.pc \in {"forward", "body"} \/ Replied(q)) =>
                           Cardinality(fw) = 2

\* a request that refreshed after a 401, retried, got a 401 again and answered
C14_Witness ==
    \E r \in 1..Len(requests) :
        LET q == requests[r]
        IN /\ Replied(q)
           /\ Cardinality(Forwards(q)) = 2
           /\ \A i \in Forwards(q) : q.log[i + 1] = Status(Unauthorized)
           /\ Cardinality({k \in Exchanges(q) : \E i \in Forwards(q) : i < k}) = 1

\* the message of a response of the route
SentMessage(resp) ==
    IF resp.kind = "json" THEN resp.body.message ELSE resp.location.message

\* C15: a request that ended in the catch block is answered as the try block
\* answers: JSON when Accept includes application/json, else a redirect to the
\* confirmation URL; and either way the message begins with "Exception:".
C15_ExceptionDualMode ==
    \A r \in 1..Len(requests) :
        LET q == requests[r]
        IN Caught(q) =>
              /\ IF WantsJson(q) THEN q.response.kind = "json"
                 ELSE /\ q.response.kind = "redirect"
                      /\ q.response.location.url = "CONFIRM_URL"
              /\ Head(SentMessage(q.response)) = "Exception: "

\* the exception a request ended with
CaughtError(q) == q.log[Len(q.log)].err

\* the revision answers the exceptions of this request with JSON
CatchesAsJson(q) ==
    \/ variant = "part_002"
    \/ variant \in {"index", "part_000"} /\ WantsJson(q)

\* C15, amended: a request that ended in the catch block is answered either
\* with JSON, status 500, body status FAIL and the message of the exception as
\* it is, or with a redirect to the confirmation URL whose message is
\* "Exception: " followed by the message of the exception.  index.js and
\* part_000 choose by the Accept header, the first route of part_002 always
\* answers JSON, the second always redirects.
C15_ExceptionAnswer ==
    \A r \in 1..Len(requests) :
        LET q == requests[r]
        IN Caught(q) =>
              IF CatchesAsJson(q)
              THEN /\ q.response.kind = "json"
                   /\ q.response.status = 500
                   /\ q.response.body.status = "FAIL"
                   /\ q.response.body.message = CaughtError(q)
                   /\ Head(q.response.body.message) # "Exception: "
              ELSE /\ q.response.kind = "redirect"
                   /\ q.response.location.url = "CONFIRM_URL"
                   /\ q.response.location.message = <<"Exception: ">> \o CaughtError(q)

\* index.js has answered two failed requests, one in each mode
C15_Witness ==
    /\ variant = "index"
    /\ \E r1, r2 \in 1..Len(requests) :
          /\ Caught(requests[r1]) /\ Caught(requests[r2])
          /\ WantsJson(requests[r1]) /\ requests[r1].response.kind = "json"
          /\ ~WantsJson(requests[r2]) /\ requests[r2].response.kind = "redirect"
          /\ CaughtError(requests[r1]) = AuthFailed(variant)
          /\ CaughtError(requests[r2]) = ParseFailed

\* C19: whatever the interleaving of the requests, every call of the remote
\* action carries a token the OAuth endpoint has issued, never the unset cache;
\* a request makes at most two such calls and at most two token exchanges; and
\* the answer of a request is decided by its Accept header and by what its last
\* call gave, whatever tokens were exchanged meanwhile.
C19_SharedCacheIsSafe ==
    /\ accessToken \in 0..issued
    /\ \A r \in 1..Len(requests) :
          LET q == requests[r]
          IN /\ \A i \in Forwards(q) :
                   q.log[i].token # NoToken /\ q.log[i].token \in 1..issued
             /\ Cardinality(Forwards(q)) <= 2
             /\ Cardinality(Exchanges(q)) <= 2
    /\ \A r1, r2 \in 1..Len(requests) :
          LET q1 == requests[r1]
              q2 == requests[r2]
          IN (/\ q1.pc = "done" /\ q2.pc = "done"
              /\ q1.accept = q2.accept
              /\ q1.log[Len(q1.log)] = q2.log[Len(q2.log)])
             => q1.response = q2.response

\* two requests found the cache empty, both exchanged, both were answered 401
\* and both refreshed; one of them called with a token granted to the other
C19_Witness ==
    /\ Len(requests) = 2
    /\ issued = 4
    /\ \A r \in 1..2 :
          /\ Replied(requests[r])
          /\ Cardinality(Exchanges(requests[r])) = 2
          /\ Cardinality(Forwards(requests[r])) = 2
    /\ \E i \in Forwards(requests[1]) :
          Granted(requests[1].log[i].token) \in
              {requests[2].log[k] : k \in 1..Len(requests[2].log)}

----------------------------------------------------------------------------
(* Properties of the follow-up crawl, of the liveness probe and of the cache *)

\* the smaller of two numbers
Min(a, b) == IF a < b THEN a ELSE b

\* the anchors of the homepage that resolve and hold a link trigger
TriggerAnchors ==
    SelectSeq(html, LAMBDA a :
        ~Unresolvable(a) /\ isTrigger(toLowerCase(HrefOf(a)), toLowerCase(a.txt)))

\* a page is being scanned
Scanning == pc = "static" \/ pc \in DynamicPcs

\* link extraction has just run on a homepage with anchors
JustExtracted == html # <<>> /\ Len(results) = 1 /\ linkIdx <= 1 /\ scans <= 2

\* C21: the candidate links are the trigger anchors of the homepage in document
\* order, repeats included, and stay as extracted; the pages are scanned one
\* at a time, the homepage first and then the links in that order, each stored
\* before the next scan begins; and a session that answers 200 has scanned
\* exactly the first min(5, n) of them.
C21_FollowUpsInOrder ==
    /\ [][/\ pc # "extract" =>
               html' = html /\ candidateLinks' = candidateLinks
          /\ pc \in {"static", "extract"} \cup DynamicPcs =>
               resolvedUrl' = resolvedUrl]_vars
    /\ []((JustExtracted /\ ~(variant = "index" /\ HasUnresolvable)) =>
             LET found == TriggerAnchors
             IN candidateLinks =
                   [i \in 1..Len(found) |-> newURL(HrefOf(found[i]), resolvedUrl)])
    /\ [](/\ linkIdx <= Min(FollowLimit, Len(candidateLinks))
          /\ Scanning =>
                /\ Len(results) = linkIdx
                /\ scans = linkIdx + 1
                /\ scanUrl = (IF linkIdx = 0 THEN resolvedUrl
                              ELSE candidateLinks[linkIdx])
          /\ \A i \in 1..Len(results) :
                results[i].url = (IF i = 1 THEN resolvedUrl ELSE candidateLinks[i - 1])
          /\ Answered200 =>
                /\ Len(results) = 1 + Min(FollowLimit, Len(candidateLinks))
                /\ scans = Len(results))

\* six links were extracted, the third repeating the first, and the session
\* answered after the homepage and the first five, the repeated one twice
C21_Witness ==
    /\ Answered200
    /\ Len(candidateLinks) = 6
    /\ candidateLinks[1] = candidateLinks[3]
    /\ candidateLinks[1] # candidateLinks[2]
    /\ Len(results) = 6
    /\ results[2].url = results[4].url
    /\ results[6].url = candidateLinks[5]

\* the liveness fetch of a session past it threw: statusCode was never assigned
LivenessFailed == scans > 0 /\ statusCode = NoStatus

\* C22: when the liveness fetch throws, siteActive is false, the homepage scan
\* and the crawl run against the URL the resolver gave, and the request is
\* answered with a 200 response.
C22_LivenessFailureNotFatal ==
    LivenessFailed =>
        /\ siteActive = FALSE
        /\ (Scanning /\ linkIdx = 0) => scanUrl = resolvedUrl
        /\ Len(results) >= 1 => results[1].url = resolvedUrl
        /\ pc = "done" => response.status = 200

\* C23: every way out of scanDynamic is a return of a result with usedDynamic
\* true for the page being scanned; after a failure of the launch or of the
\* rendering, the result has the rendering error, hasCreditApp false and no
\* matched keywords.
C23_DynamicScannerReturns ==
    [][(pc \in DynamicPcs /\ pc' \notin DynamicPcs) =>
          /\ Len(results') = Len(results) + 1
          /\ LET r == results'[Len(results')]
             IN /\ "usedDynamic" \in DOMAIN r
                /\ r.usedDynamic
                /\ r.url = scanUrl
                /\ pc \in {"dyn_launch", "dyn_catch"} =>
                      /\ ErrorOf(r) = "Puppeteer error"
                      /\ ~r.hasCreditApp
                      /\ r.matchedKeywords = <<>>]_vars


\* a non-empty string input: the only inputs resolveUrl trims and probes
NonEmptyString(raw) == IsString(raw) /\ raw # <<>>

\* the probe at position i of the loop ended in the catch of the loop
ProbeThrew(i) == probed[i].resp.threw

\* C24: for a non-empty string input resolveUrl never rejects: a probe that
\* throws is followed by the probe of the next candidate while there is one,
\* and when no candidate is live the result is "https://" + the trimmed input.
C24_ResolverNeverFails ==
    NonEmptyString(inputUrl) =>
        /\ pc # "rejected"
        /\ response = NoResponse
        /\ \A i \in 1..Len(probed) :
              (ProbeThrew(i) /\ i < Len(attempts)) =>
                  \/ pc = "probing" /\ Len(probed) = i
                  \/ Len(probed) > i /\ probed[i + 1].url = attempts[i + 1]
        /\ pc = "resolved" =>
              /\ IsString(resolvedUrl)
              /\ resolvedUrl # <<>>
              /\ (/\ Len(probed) >= 1
                  /\ ~LiveProbe(probed[Len(probed)])) =>
                    /\ Len(probed) = Len(attempts)
                    /\ resolvedUrl = HTTPS \o trim(inputUrl)

\* every one of the four candidates of a blank input threw, and the fallback
\* was returned
C24_Witness ==
    /\ pc = "resolved"
    /\ inputUrl = <<" ">>
    /\ Len(probed) = 4
    /\ \A i \in 1..4 : ProbeThrew(i)
    /\ resolvedUrl = HTTPS
    /\ response = NoResponse

\* the results of a 200 response that were listed as hits
HitsOf(resp) == resp.body.hits

\* C25: a page result that carries an error, from the static or from the
\* dynamic scanner, has hasCreditApp false, and no result listed in the hits
\* of a 200 response carries an error.
C25_ErrorNeverMatches ==
    /\ \A r \in PageScanResults : ~NoError(r) => ~r.hasCreditApp
    /\ Answered200 => \A i \in 1..Len(HitsOf(response)) : NoError(HitsOf(response)[i])

\* a 200 response with hits, of a session whose results hold a page the
\* dynamic scanner failed on, which is not among the hits
C25_Witness ==
    /\ Answered200
    /\ HitsOf(response) # <<>>
    /\ \E i \in 1..Len(results) :
          /\ ErrorOf(results[i]) = "Puppeteer error"
          /\ \A j \in 1..Len(HitsOf(response)) : HitsOf(response)[j] # results[i]

\* the log of request r in a list of requests, empty before the request arrived
LogOf(reqs, r) == IF r <= Len(reqs) THEN reqs[r].log ELSE <<>>

\* what a step appended to the log of request r
Appended(r) ==
    SubSeq(LogOf(requests', r), Len(LogOf(requests, r)) + 1, Len(LogOf(requests', r)))

\* C26: a step in which a token exchange fails (the fetch throws, the response
\* is not OK or its body does not parse) leaves the cached token as it was; a
\* set cache is never unset, and changes only to the token an exchange was
\* granted; and an exchange is started only by an arriving request that finds
\* the cache unset or by a request whose call was just answered 401.
C26_FailedExchangeKeepsCache ==
    [][/\ accessToken # NoToken => accessToken' # NoToken
       /\ \A r \in 1..Len(requests) :
             (/\ requests[r].pc \in {"token_fetch", "token_json"}
              /\ Appended(r) # <<>>
              /\ Appended(r)[Len(Appended(r))].e = "threw") =>
                 accessToken' = accessToken
       /\ accessToken' # accessToken =>
             \E r \in 1..Len(requests) :
                /\ requests[r].pc = "token_json"
                /\ requests[r].pending # NoToken
                /\ accessToken' = requests[r].pending
                /\ Granted(accessToken') \in
                      {requests[r].log[k] : k \in 1..Len(requests[r].log)}
       /\ \A r \in 1..Len(requests') :
             Exchange \in {Appended(r)[k] : k \in 1..Len(Appended(r))} =>
                \/ /\ r > Len(requests)
                   /\ accessToken = NoToken
                   /\ Appended(r) = <<Exchange>>
                \/ /\ r <= Len(requests)
                   /\ requests[r].pc = "forward"
                   /\ Appended(r) = <<Status(Unauthorized), Exchange>>]_vars

\* a request that found the cache set was answered 401, its refresh failed,
\* and the cache still holds the token the request had called with
C26_Witness ==
    \E r \in 1..Len(requests) :
        LET q == requests[r]
        IN /\ Caught(q)
           /\ Len(q.log) = 4
           /\ q.log[1] = Forward(accessToken)
           /\ accessToken # NoToken
           /\ q.log[2] = Status(Unauthorized)
           /\ q.log[3] = Exchange
           /\ CaughtError(q) = AuthFailed(variant)

\* the positions of the handler at which resolvedUrl is still being computed
ResolvingPcs == {"start", "probing", "liveness"}

\* C27: in every 200 response statusCode is null exactly when the liveness
\* fetch threw; siteActive is true exactly when statusCode is not null and is in
\* the live range of the revision (200 to 399 in index.js, 200 to 499 in the
\* others); resolvedUrl is the url of the liveness response whenever there was
\* one, whatever its status, and otherwise what it was before the liveness
\* fetch.
C27_ProbeDecidesStatus ==
    /\ [][/\ pc = "liveness" =>
                resolvedUrl' = (IF headResp'.threw THEN resolvedUrl ELSE headResp'.url)
          /\ pc \notin ResolvingPcs =>
                resolvedUrl' = resolvedUrl /\ headResp' = headResp]_vars
    /\ [](Answered200 =>
             LET b == response.body
             IN /\ b.statusCode = NoStatus <=> headResp.threw
                /\ b.siteActive <=>
                      /\ b.statusCode # NoStatus
                      /\ b.statusCode >= 200
                      /\ b.statusCode < (IF variant = "index" THEN 400 ELSE 500)
                /\ ~headResp.threw =>
                      b.statusCode = headResp.status /\ b.resolvedUrl = headResp.url
                /\ b.resolvedUrl = resolvedUrl)

\* a 200 response after a liveness fetch that was redirected and answered 404,
\* outside the live range of index.js: the site is reported inactive under the
\* redirected URL
C27_Witness ==
    /\ Answered200
    /\ variant = "index"
    /\ inputUrl = HTTPS \o <<"a", " ">>
    /\ ~headResp.threw
    /\ response.body.statusCode = 404
    /\ ~response.body.siteActive
    /\ response.body.resolvedUrl = RedirectUrl

====
